---- MODULE Spec2Model ----
(***************************************************************************)
(* Model of genetics_spark_coloc:                                          *)
(*   src/src/overlaps.py  findOverlappingSignals                           *)
(*   src/src/coloc.py     logsum, posteriors, colocalisation               *)
(*                                                                         *)
(* Conventions.                                                            *)
(*  - A Spark string that is concatenated or ordered is the sequence of    *)
(*    its UTF-8 byte codes; NullStr is the SQL NULL string.  Identifiers   *)
(*    that are only tested for equality are TLA+ strings.                  *)
(*  - A double is an exact rational <<n, d>>, d > 0, in lowest terms;      *)
(*    NullNum is the SQL NULL double.                                      *)
(*  - A double that the code treats as a logarithm (logABF, logsum*,       *)
(*    lH*abf) is <<"ln", n, d>>, the natural logarithm of n/d; NullLog is  *)
(*    its NULL.  F.exp and F.log pass between the two forms, + and - of    *)
(*    logarithms are the product and quotient of their arguments.          *)
(*    Arithmetic is exact: IEEE rounding is not modelled.                  *)
(*  - A Spark map is the sequence of its <<key, value>> entries in         *)
(*    insertion order; a DataFrame is a bag of rows.                       *)
(***************************************************************************)
EXTENDS Integers, Sequences, FiniteSets, Bags, TLC

VARIABLES
    pc,                          \* position in findOverlappingSignals
    records,                     \* rows of the parquet at credSetPath
    credSet,                     \* overlaps.py:33
    joined,                      \* overlaps.py:54-70, before dropDuplicates
    overlappingPeaks,            \* overlaps.py:53
    overlappingPeaksWithArrays,  \* overlaps.py:76
    cpc,                         \* position in colocalisation
    overlappingSignals,          \* argument of colocalisation
    priors,                      \* <<priorc1, priorc2, priorc12>>
    logsums,                     \* the frame after coloc.py:68
    filtered,                    \* the frame after coloc.py:70
    hypotheses,                  \* the frame after coloc.py:101
    coloc                        \* coloc.py:44, returned

ovars == <<pc, records, credSet, joined, overlappingPeaks, overlappingPeaksWithArrays>>
cvars == <<cpc, overlappingSignals, priors, logsums, filtered, hypotheses, coloc>>
vars == <<ovars, cvars>>

(***************************************************************************)
(* Bounds                                                                  *)
(***************************************************************************)
MaxRecords == 4     \* rows in the input parquet
MaxLen == 2         \* length of a logABF vector handed to colocalisation

(***************************************************************************)
(* Strings                                                                 *)
(***************************************************************************)
NullStr == <<0>>
Underscore == <<95>>
Gwas == <<103, 119, 97, 115>>       \* "gwas"
Pqtl == <<112, 113, 116, 108>>      \* "pqtl"
StrA == <<97>>                      \* "a"
StrB == <<98>>                      \* "b"
StrAB == <<97, 95, 98>>             \* "a_b"

RECURSIVE JoinStrings(_, _)
JoinStrings(sep, strs) ==
    IF strs = <<>> THEN <<>>
    ELSE IF Len(strs) = 1 THEN strs[1]
    ELSE strs[1] \o sep \o JoinStrings(sep, Tail(strs))

\* F.concat_ws(sep, *cols): NULL columns are skipped, not rendered
ConcatWs(sep, cols) == JoinStrings(sep, SelectSeq(cols, LAMBDA c : c # NullStr))

RECURSIVE StrGreater(_, _)
\* binary (byte-wise lexicographic) string comparison  x > y
StrGreater(x, y) ==
    IF x = <<>> THEN FALSE
    ELSE IF y = <<>> THEN TRUE
    ELSE IF Head(x) # Head(y) THEN Head(x) > Head(y)
    ELSE StrGreater(Tail(x), Tail(y))

(***************************************************************************)
(* Doubles                                                                 *)
(***************************************************************************)
NullNum == <<0, 0>>
Real0 == <<0, 1>>
Real1 == <<1, 1>>

RECURSIVE Gcd(_, _)
Gcd(a, b) == IF b = 0 THEN a ELSE Gcd(b, a % b)
Abs(a) == IF a < 0 THEN -a ELSE a
Norm(n, d) ==
    LET g == Gcd(Abs(n), Abs(d))
    IN IF d < 0 THEN <<(-n) \div g, (-d) \div g>> ELSE <<n \div g, d \div g>>
IsNull(x) == x = NullNum
RMul(x, y) == IF IsNull(x) \/ IsNull(y) THEN NullNum ELSE Norm(x[1] * y[1], x[2] * y[2])
\* Spark division: NULL when the divisor is 0
RDiv(x, y) ==
    IF IsNull(x) \/ IsNull(y) \/ y[1] = 0 THEN NullNum ELSE Norm(x[1] * y[2], x[2] * y[1])
RAdd(x, y) ==
    IF IsNull(x) \/ IsNull(y) THEN NullNum ELSE Norm(x[1] * y[2] + y[1] * x[2], x[2] * y[2])
RSub(x, y) ==
    IF IsNull(x) \/ IsNull(y) THEN NullNum ELSE Norm(x[1] * y[2] - y[1] * x[2], x[2] * y[2])
RLess(x, y) == x[1] * y[2] < y[1] * x[2]
RLeq(x, y) == x[1] * y[2] <= y[1] * x[2]

(***************************************************************************)
(* Doubles that are logarithms                                             *)
(***************************************************************************)
NullLog == <<"ln", 0, 0>>
Ln(r) == <<"ln", r[1], r[2]>>
Arg(x) == <<x[2], x[3]>>
IsNullLog(x) == x = NullLog
Zero == Ln(Real1)         \* F.lit(0.0) where a logarithm is meant

\* F.exp; F.log, which is NULL unless its argument is positive
Exp(x) == IF IsNullLog(x) THEN NullNum ELSE Arg(x)
Log(r) == IF IsNull(r) \/ r[1] <= 0 THEN NullLog ELSE Ln(r)
\* x + y and x - y
LAdd(x, y) == IF IsNullLog(x) \/ IsNullLog(y) THEN NullLog ELSE Ln(RMul(Arg(x), Arg(y)))
LSub(x, y) == IF IsNullLog(x) \/ IsNullLog(y) THEN NullLog ELSE Ln(RDiv(Arg(x), Arg(y)))
LLess(x, y) == RLess(Arg(x), Arg(y))
\* SQL x != y: not true when either side is NULL
NotEqual(x, y) == ~IsNullLog(x) /\ ~IsNullLog(y) /\ x # y
\* F.coalesce(v, d)
Coalesce(v, d) == IF IsNullLog(v) THEN d ELSE v

RECURSIVE MaxOf(_)
MaxOf(S) ==
    LET x == CHOOSE y \in S : TRUE
    IN IF S = {x} THEN x
       ELSE LET m == MaxOf(S \ {x}) IN IF LLess(m, x) THEN x ELSE m
\* F.array_max, F.greatest: the largest non-null element, NULL when there is none
ArrayMax(v) ==
    LET S == { v[i] : i \in 1..Len(v) } \ {NullLog}
    IN IF S = {} THEN NullLog ELSE MaxOf(S)

RECURSIVE Aggregate(_, _)
\* F.aggregate(v, acc, lambda acc, x: acc + x)
Aggregate(v, acc) == IF v = <<>> THEN acc ELSE Aggregate(Tail(v), RAdd(acc, Head(v)))

(***************************************************************************)
(* Input of findOverlappingSignals                                         *)
(***************************************************************************)
\* <<type, study_id, phenotype_id, bio_feature, lead_variant_id>>
StudyLeads ==
    << <<Gwas, StrA, NullStr, NullStr, "v1">>,     \* studyKey gwas_a
       <<Gwas, StrA, StrB, NullStr, "v1">>,        \* studyKey gwas_a_b
       <<Gwas, StrAB, NullStr, NullStr, "v1">>,    \* studyKey gwas_a_b too
       <<Gwas, StrAB, NullStr, NullStr, "v2">>,    \* same study, other lead
       <<Pqtl, StrA, NullStr, NullStr, "v1">> >>   \* studyKey pqtl_a
Tags == <<"t1", "t2", "t3">>

\* one candidate row per (study, lead variant, tag variant); its logABF is
\* NULL or a value no other candidate has, ln(2g + t)
Candidate(g, t, isNull) ==
    [type |-> StudyLeads[g][1], study_id |-> StudyLeads[g][2],
     phenotype_id |-> StudyLeads[g][3], bio_feature |-> StudyLeads[g][4],
     lead_variant_id |-> StudyLeads[g][5], tag_variant_id |-> Tags[t],
     logABF |-> IF isNull THEN NullLog ELSE Ln(<<2 * g + t, 1>>)]
CandidateKeys == (1..Len(StudyLeads)) \X (1..Len(Tags))

(***************************************************************************)
(* findOverlappingSignals, overlaps.py                                     *)
(***************************************************************************)
idCols(r) == <<r.studyKey, r.lead_variant_id, r.type>>

studyKey(r) == ConcatWs(Underscore, <<r.type, r.study_id, r.phenotype_id, r.bio_feature>>)

\* .withColumn("studyKey", ...).filter(F.col("logABF").isNotNull())
WithStudyKey(recs) ==
    { [type |-> r.type, study_id |-> r.study_id, phenotype_id |-> r.phenotype_id,
       bio_feature |-> r.bio_feature, lead_variant_id |-> r.lead_variant_id,
       tag_variant_id |-> r.tag_variant_id, logABF |-> r.logABF,
       studyKey |-> studyKey(r)] : r \in recs }
NotNullLogABF(rows) == { r \in rows : ~IsNullLog(r.logABF) }

\* the rows of one window partition, wind1 = Window.partitionBy(idCols)
Partition(rows, id) == { r \in rows : idCols(r) = id }
Structs(rows, id) == { <<r.tag_variant_id, r.logABF>> : r \in Partition(rows, id) }

RECURSIVE Orders(_)
\* F.collect_list over an unordered window: any order of the partition's rows
Orders(S) ==
    IF S = {} THEN {<<>>}
    ELSE UNION { { <<x>> \o s : s \in Orders(S \ {x}) } : x \in S }

RECURSIVE OrderChoices(_, _)
OrderChoices(rows, ids) ==
    IF ids = {} THEN {<<>>}
    ELSE LET id == CHOOSE x \in ids : TRUE
         IN { f @@ (id :> o) : f \in OrderChoices(rows, ids \ {id}),
                               o \in Orders(Structs(rows, id)) }

\* F.map_from_entries raises on a duplicated key (spark.sql.mapKeyDedupPolicy,
\* EXCEPTION by default)
DuplicateKey(entries) ==
    \E i, j \in 1..Len(entries) : i # j /\ entries[i][1] = entries[j][1]
MapFromEntries(entries) == entries

MapKeys(m) == { m[i][1] : i \in 1..Len(m) }
MapGet(m, k) ==
    IF k \in MapKeys(m) THEN (m[CHOOSE i \in 1..Len(m) : m[i][1] = k])[2] ELSE NullLog

\* the columns kept of either side by selectExpr: colsToRename
Side(r) ==
    [studyKey |-> r.studyKey, lead_variant_id |-> r.lead_variant_id, type |-> r.type,
     study_id |-> r.study_id, phenotype_id |-> r.phenotype_id,
     bio_feature |-> r.bio_feature, all_tags |-> r.all_tags]

\* credSet, overlaps.py:33-49, with the collect_list order of each partition
CredSetRows(rows, order) ==
    { [studyKey |-> r.studyKey, lead_variant_id |-> r.lead_variant_id, type |-> r.type,
       study_id |-> r.study_id, phenotype_id |-> r.phenotype_id,
       bio_feature |-> r.bio_feature, tag_variant_id |-> r.tag_variant_id,
       all_tags |-> MapFromEntries(order[idCols(r)])] : r \in rows }

\* the join's on= condition, overlaps.py:58-62
\* (JoinConditionGeq, JoinConditionNeq: the same with >= and with != for >)
JoinConditionGeq(l, r) ==
    /\ l.tag_variant_id = r.tag_variant_id
    /\ \/ r.type # Gwas
       \/ ~StrGreater(r.studyKey, l.studyKey)
JoinConditionNeq(l, r) ==
    /\ l.tag_variant_id = r.tag_variant_id
    /\ \/ r.type # Gwas
       \/ l.studyKey # r.studyKey
JoinCondition(l, r) ==
    /\ l.tag_variant_id = r.tag_variant_id
    /\ \/ r.type # Gwas
       \/ StrGreater(l.studyKey, r.studyKey)

\* credSet.alias("left").filter(type == "gwas").join(credSet.alias("right"), ...)
JoinPairs(cs) ==
    { lr \in { l \in cs : l.type = Gwas } \X cs : JoinCondition(lr[1], lr[2]) }
Renamed(lr) == [left |-> Side(lr[1]), right |-> Side(lr[2])]
\* the bag of joined rows after selectExpr: one row per matching pair of rows
JoinedBag(cs) ==
    [ row \in { Renamed(lr) : lr \in JoinPairs(cs) } |->
        Cardinality({ lr \in JoinPairs(cs) : Renamed(lr) = row }) ]

\* dropDuplicates(["left_" + i for i in idCols] + ["right_" + i for i in idCols])
\* (DedupKeyLeftOnly: the left columns alone)
DedupKeyLeftOnly(row) == idCols(row.left)
DedupKey(row) == <<idCols(row.left), idCols(row.right)>>
\* the frames dropDuplicates may return: one row, whichever, per key
\* (NoDropDuplicates: the frame as it is)
NoDropDuplicates(bag) == { bag }
DropDuplicates(bag) ==
    { SetToBag(kept) : kept \in
        { kept \in SUBSET BagToSet(bag) :
            /\ \A row \in BagToSet(bag) : \E k \in kept : DedupKey(k) = DedupKey(row)
            /\ \A k1, k2 \in kept : DedupKey(k1) = DedupKey(k2) => k1 = k2 } }

\* the keys of F.map_zip_with(m1, m2, f): those of m1, then those only m2 has
ZipKeys(m1, m2) ==
    [ i \in 1..Len(m1) |-> m1[i][1] ]
        \o SelectSeq([ i \in 1..Len(m2) |-> m2[i][1] ], LAMBDA k : k \notin MapKeys(m1))

\* F.map_values(F.map_zip_with(left_all_tags, right_all_tags, coalesce(v1, 0.0)))
left_logABF(row) ==
    LET keys == ZipKeys(row.left.all_tags, row.right.all_tags)
    IN [ i \in 1..Len(keys) |-> Coalesce(MapGet(row.left.all_tags, keys[i]), Zero) ]
\* (right_logABFOwnOrder: the same over map_zip_with(right_all_tags, left_all_tags))
right_logABFOwnOrder(row) ==
    LET keys == ZipKeys(row.right.all_tags, row.left.all_tags)
    IN [ i \in 1..Len(keys) |-> Coalesce(MapGet(row.right.all_tags, keys[i]), Zero) ]
\* F.map_values(F.map_zip_with(left_all_tags, right_all_tags, coalesce(v2, 0.0)))
right_logABF(row) ==
    LET keys == ZipKeys(row.left.all_tags, row.right.all_tags)
    IN [ i \in 1..Len(keys) |-> Coalesce(MapGet(row.right.all_tags, keys[i]), Zero) ]

Ident(side) ==
    [studyKey |-> side.studyKey, lead_variant_id |-> side.lead_variant_id,
     type |-> side.type, study_id |-> side.study_id,
     phenotype_id |-> side.phenotype_id, bio_feature |-> side.bio_feature]
\* .withColumn("left_logABF", ..).withColumn("right_logABF", ..).drop(all_tags)
WithArrays(row) ==
    [left |-> Ident(row.left), right |-> Ident(row.right),
     left_logABF |-> left_logABF(row), right_logABF |-> right_logABF(row)]

RECURSIVE SumOver(_, _)
SumOver(bag, S) ==
    IF S = {} THEN 0
    ELSE LET x == CHOOSE y \in S : TRUE IN bag[x] + SumOver(bag, S \ {x})
\* the bag of WithArrays(row) over the rows of a bag
ArraysBag(bag) ==
    [ out \in { WithArrays(row) : row \in BagToSet(bag) } |->
        SumOver(bag, { row \in BagToSet(bag) : WithArrays(row) = out }) ]

ColocIdle ==
    /\ cpc = "idle"
    /\ overlappingSignals = EmptyBag
    /\ priors = <<NullNum, NullNum, NullNum>>
    /\ logsums = EmptyBag
    /\ filtered = EmptyBag
    /\ hypotheses = EmptyBag
    /\ coloc = EmptyBag

InitOverlaps ==
    /\ pc = "start"
    /\ \E present \in SUBSET CandidateKeys :
         /\ Cardinality(present) <= MaxRecords
         /\ \E nulls \in SUBSET present :
              records = { Candidate(k[1], k[2], k \in nulls) : k \in present }
    /\ credSet = {}
    /\ joined = EmptyBag
    /\ overlappingPeaks = EmptyBag
    /\ overlappingPeaksWithArrays = EmptyBag
    /\ ColocIdle

\* overlaps.py:32-49; a partition holding one tag twice makes map_from_entries raise
CredSet ==
    /\ pc = "start"
    /\ LET rows == NotNullLogABF(WithStudyKey(records))
           ids == { idCols(r) : r \in rows }
       IN \/ /\ \E o \in OrderChoices(rows, ids) : \E id \in ids : DuplicateKey(o[id])
             /\ pc' = "failed"
             /\ UNCHANGED credSet
          \/ \E o \in OrderChoices(rows, ids) :
               /\ \A id \in ids : ~DuplicateKey(o[id])
               /\ credSet' = CredSetRows(rows, o)
               /\ pc' = "credSet"
    /\ UNCHANGED <<records, joined, overlappingPeaks, overlappingPeaksWithArrays>>
    /\ UNCHANGED cvars

\* overlaps.py:53-70
SelfJoin ==
    /\ pc = "credSet"
    /\ joined' = JoinedBag(credSet)
    /\ pc' = "joined"
    /\ UNCHANGED <<records, credSet, overlappingPeaks, overlappingPeaksWithArrays>>
    /\ UNCHANGED cvars

\* overlaps.py:71-73
KeepOnePerPeak ==
    /\ pc = "joined"
    /\ \E kept \in DropDuplicates(joined) : overlappingPeaks' = kept
    /\ pc' = "peaks"
    /\ UNCHANGED <<records, credSet, joined, overlappingPeaksWithArrays>>
    /\ UNCHANGED cvars

\* overlaps.py:75-100
Arrays ==
    /\ pc = "peaks"
    /\ overlappingPeaksWithArrays' = ArraysBag(overlappingPeaks)
    /\ pc' = "done"
    /\ UNCHANGED <<records, credSet, joined, overlappingPeaks>>
    /\ UNCHANGED cvars

NextOverlaps == CredSet \/ SelfJoin \/ KeepOnePerPeak \/ Arrays

\* findOverlappingSignals run on every bounded input
SpecOverlaps == InitOverlaps /\ [][NextOverlaps]_vars


(***************************************************************************)
(* coloc.py                                                                *)
(***************************************************************************)
\* coloc.py:9-21
logsum(logABF) ==
    LET themax == ArrayMax(logABF)
        expVector == [ i \in 1..Len(logABF) |-> Exp(LSub(logABF[i], themax)) ]
        summedval == Aggregate(expVector, Real0)
    IN LAdd(themax, Log(summedval))

\* coloc.py:24-33
\* (posteriorsOverMax: the same with the maximum in place of the logsum)
posteriorsOverMax(allABF) ==
    [ i \in 1..Len(allABF) |-> Exp(LSub(allABF[i], ArrayMax(allABF))) ]
posteriors(allABF) ==
    LET theLogsum == logsum(allABF)
    IN [ i \in 1..Len(allABF) |-> Exp(LSub(allABF[i], theLogsum)) ]

\* transform(arrays_zip(left_logABF, right_logABF), x -> x.left_logABF + x.right_logABF):
\* arrays_zip pads the shorter array with NULLs
sum_logABF(l, r) ==
    [ i \in 1..(IF Len(l) > Len(r) THEN Len(l) ELSE Len(r)) |->
        LAdd(IF i <= Len(l) THEN l[i] ELSE NullLog, IF i <= Len(r) THEN r[i] ELSE NullLog) ]

\* coloc.py:44-68, one row; pair stands for the row's left_* and right_* columns
WithLogsums(row, pr) ==
    LET logsum1 == logsum(row.left_logABF)
        logsum2 == logsum(row.right_logABF)
    IN [pair |-> row,
        logsum1 |-> logsum1, logsum2 |-> logsum2,
        logsum12 |-> logsum(sum_logABF(row.left_logABF, row.right_logABF)),
        priorc1 |-> pr[1], priorc2 |-> pr[2], priorc12 |-> pr[3],
        lH0abf |-> Zero,
        lH1abf |-> LAdd(Log(pr[1]), logsum1),
        lH2abf |-> LAdd(Log(pr[2]), logsum2),
        sumlogsum |-> LAdd(logsum1, logsum2)]

\* coloc.py:70, the filter's condition
\* (NotDegenerateVsLogsum1: the same against logsum1)
NotDegenerateVsLogsum1(row) == NotEqual(row.sumlogsum, row.logsum1)
NotDegenerate(row) == NotEqual(row.sumlogsum, row.logsum12)

\* the argument of the H3 logarithm, coloc.py:77-78
H3Arg(row) ==
    LET max == ArrayMax(<<row.sumlogsum, row.logsum12>>)
    IN RSub(Exp(LSub(row.sumlogsum, max)), Exp(LSub(row.logsum12, max)))

\* coloc.py:71-101, one row
WithHypotheses(row) ==
    LET max == ArrayMax(<<row.sumlogsum, row.logsum12>>)
        logdiff == LAdd(max, Log(H3Arg(row)))
        lH3abf == LAdd(LAdd(Log(row.priorc1), Log(row.priorc2)), logdiff)
        lH4abf == LAdd(Log(row.priorc12), row.logsum12)
    IN [pair |-> row.pair,
        lH0abf |-> row.lH0abf, lH1abf |-> row.lH1abf, lH2abf |-> row.lH2abf,
        lH3abf |-> lH3abf, lH4abf |-> lH4abf,
        allABF |-> <<row.lH0abf, row.lH1abf, row.lH2abf, lH3abf, lH4abf>>]

\* F.log2, NULL unless its argument is positive
Log2(r) == IF IsNull(r) \/ r[1] <= 0 THEN <<"log2", 0, 0>> ELSE <<"log2", r[1], r[2]>>

\* coloc.py:102-112, one row
WithPosteriors(row) ==
    LET post == posteriors(row.allABF)
        coloc_h4_h3 == RDiv(post[5], post[4])
    IN [pair |-> row.pair,
        coloc_h0 |-> post[1], coloc_h1 |-> post[2], coloc_h2 |-> post[3],
        coloc_h3 |-> post[4], coloc_h4 |-> post[5],
        coloc_h4_h3 |-> coloc_h4_h3, coloc_log2_h4_h3 |-> Log2(coloc_h4_h3)]

(***************************************************************************)
(* Input of colocalisation                                                 *)
(***************************************************************************)
\* logABF values -ln 2, 0.0, ln 2
LogABFValues == { Ln(<<1, 2>>), Zero, Ln(<<2, 1>>) }
\* priors 0, 1/4, 1/2, 1: two inside (0,1), and its two ends
PriorValues == { Real0, <<1, 4>>, <<1, 2>>, Real1 }
Vectors == UNION { [1..n -> LogABFValues] : n \in 0..MaxLen }
\* a row of overlappingSignals: any two vectors, of equal length or not
PairRows == [left_logABF : Vectors, right_logABF : Vectors]

\* the pair and priors of the spec's section 8; logABF 5.0 is ln(148.41..),
\* its argument held to the unit
Five == Ln(<<148, 1>>)
Pair55 == [left_logABF |-> <<Five>>, right_logABF |-> <<Five>>]
Priors55 == << <<1, 10000>>, <<1, 10000>>, <<1, 100000>> >>

OverlapsIdle ==
    /\ pc = "idle"
    /\ records = {}
    /\ credSet = {}
    /\ joined = EmptyBag
    /\ overlappingPeaks = EmptyBag
    /\ overlappingPeaksWithArrays = EmptyBag

InitColoc ==
    /\ cpc = "start"
    /\ \/ /\ \E row \in PairRows : overlappingSignals = SetToBag({row})
          /\ priors \in PriorValues \X PriorValues \X PriorValues
       \/ /\ overlappingSignals = SetToBag({Pair55})
          /\ priors = Priors55
    /\ logsums = EmptyBag
    /\ filtered = EmptyBag
    /\ hypotheses = EmptyBag
    /\ coloc = EmptyBag
    /\ OverlapsIdle

\* coloc.py:44-68
Logsums ==
    /\ cpc = "start"
    /\ logsums' = SetToBag({ WithLogsums(row, priors) : row \in BagToSet(overlappingSignals) })
    /\ cpc' = "logsums"
    /\ UNCHANGED <<overlappingSignals, priors, filtered, hypotheses, coloc>>
    /\ UNCHANGED ovars

\* coloc.py:69-70
FilterDegenerate ==
    /\ cpc = "logsums"
    /\ filtered' = SetToBag({ row \in BagToSet(logsums) : NotDegenerate(row) })
    /\ cpc' = "filtered"
    /\ UNCHANGED <<overlappingSignals, priors, logsums, hypotheses, coloc>>
    /\ UNCHANGED ovars

\* coloc.py:71-101
Hypotheses ==
    /\ cpc = "filtered"
    /\ hypotheses' = SetToBag({ WithHypotheses(row) : row \in BagToSet(filtered) })
    /\ cpc' = "hypotheses"
    /\ UNCHANGED <<overlappingSignals, priors, logsums, filtered, coloc>>
    /\ UNCHANGED ovars

\* coloc.py:102-113
Posteriors ==
    /\ cpc = "hypotheses"
    /\ coloc' = SetToBag({ WithPosteriors(row) : row \in BagToSet(hypotheses) })
    /\ cpc' = "done"
    /\ UNCHANGED <<overlappingSignals, priors, logsums, filtered, hypotheses>>
    /\ UNCHANGED ovars

NextColoc == Logsums \/ FilterDegenerate \/ Hypotheses \/ Posteriors

\* colocalisation run on every bounded pair and prior triple
SpecColoc == InitColoc /\ [][NextColoc]_vars

(***************************************************************************)
(* What the input says, read off the records alone                         *)
(***************************************************************************)
NonNullRecords == { r \in records : r.logABF # NullLog }
IdOf(r) == <<studyKey(r), r.lead_variant_id, r.type>>
\* the credible sets: the groups of non-null records by idCols
CredibleSets == { IdOf(r) : r \in NonNullRecords }
TagsOf(id) == { r.tag_variant_id : r \in { x \in NonNullRecords : IdOf(x) = id } }
ValueOf(id, t) ==
    (CHOOSE r \in NonNullRecords : IdOf(r) = id /\ r.tag_variant_id = t).logABF
ValueOrZero(id, t) == IF t \in TagsOf(id) THEN ValueOf(id, t) ELSE Zero
Share(a, b) == TagsOf(a) \cap TagsOf(b) # {}

OutRows == BagToSet(overlappingPeaksWithArrays)
\* the pair (a, b) of credible sets, by studyKey and lead variant, is in the output
Produced(a, b) ==
    \E o \in OutRows :
        /\ o.left.studyKey = a[1] /\ o.left.lead_variant_id = a[2]
        /\ o.right.studyKey = b[1] /\ o.right.lead_variant_id = b[2]

(***************************************************************************)
(* C1: every OverlapPair has a gwas left side, never pairs a credible set  *)
(* (studyKey, lead_variant_id) with itself, and never comes with its       *)
(* reverse.                                                                *)
(***************************************************************************)
C1_LeftGwasNoSelfNoReverse ==
    \A o \in OutRows :
        /\ o.left.type = Gwas
        /\ ~(o.left.studyKey = o.right.studyKey
              /\ o.left.lead_variant_id = o.right.lead_variant_id)
        /\ ~Produced(<<o.right.studyKey, o.right.lead_variant_id>>,
                     <<o.left.studyKey, o.left.lead_variant_id>>)
\* a gwas-gwas pair has been produced
C1_Witness ==
    pc = "done" /\ \E o \in OutRows : o.right.type = Gwas

(***************************************************************************)
(* C2, as claimed: any two distinct gwas credible sets (differing in       *)
(* StudyKey or in lead variant) that share a tag variant are produced in   *)
(* exactly one direction.                                                  *)
(***************************************************************************)
GwasSets == { a \in CredibleSets : a[3] = Gwas }
C2_ExactlyOneDirection ==
    pc = "done" =>
        \A a, b \in GwasSets :
            (a # b /\ Share(a, b)) => (Produced(a, b) # Produced(b, a))
(***************************************************************************)
(* C2, amended: two distinct gwas credible sets that share a tag variant   *)
(* are produced in exactly one direction when their studyKey strings       *)
(* differ, and in neither when the strings are equal (same study, other    *)
(* lead variant).                                                          *)
(***************************************************************************)
C2_OneDirectionIffKeysDiffer ==
    pc = "done" =>
        \A a, b \in GwasSets :
            (a # b /\ Share(a, b)) =>
                IF a[1] # b[1]
                THEN Produced(a, b) # Produced(b, a)
                ELSE ~Produced(a, b) /\ ~Produced(b, a)
\* two credible sets of one gwas study, with different leads, share a tag
C2_Witness ==
    /\ pc = "done"
    /\ \E a, b \in GwasSets : a # b /\ a[1] = b[1] /\ Share(a, b)
    /\ \E a, b \in GwasSets : a[1] # b[1] /\ Share(a, b)

(***************************************************************************)
(* C3: the output is exactly the eligible pairs, each once: (L, R) is      *)
(* produced iff L is gwas, L and R share a tag variant among the records   *)
(* with a non-null logABF, and R is not gwas or L.studyKey > R.studyKey;   *)
(* no (left studyKey, left lead, right studyKey, right lead) occurs in     *)
(* two output rows.                                                        *)
(***************************************************************************)
Eligible ==
    { lr \in CredibleSets \X CredibleSets :
        /\ lr[1][3] = Gwas
        /\ Share(lr[1], lr[2])
        /\ (lr[2][3] # Gwas \/ StrGreater(lr[1][1], lr[2][1])) }
Identity4(o) ==
    <<o.left.studyKey, o.left.lead_variant_id, o.right.studyKey, o.right.lead_variant_id>>
C3_ExactlyEligibleOnce ==
    pc = "done" =>
        /\ { <<idCols(o.left), idCols(o.right)>> : o \in OutRows } = Eligible
        /\ \A o \in OutRows : overlappingPeaksWithArrays[o] = 1
        /\ \A o1, o2 \in OutRows : Identity4(o1) = Identity4(o2) => o1 = o2
\* a produced pair shares two tag variants: the join met it twice
C3_Witness ==
    /\ pc = "done"
    /\ \E o \in OutRows :
         Cardinality(TagsOf(idCols(o.left)) \cap TagsOf(idCols(o.right))) >= 2

(***************************************************************************)
(* C4: in every OverlapPair left_logABF and right_logABF have the length   *)
(* of the union of the two sets' tag variants, and one ordering of that    *)
(* union explains both: position i holds each side's logABF for the i-th   *)
(* tag, or 0.0 where the side lacks it.                                    *)
(***************************************************************************)
C4_AlignedOverUnion ==
    \A o \in OutRows :
        LET l == idCols(o.left)
            r == idCols(o.right)
            U == TagsOf(l) \cup TagsOf(r)
        IN /\ Len(o.left_logABF) = Cardinality(U)
           /\ Len(o.right_logABF) = Cardinality(U)
           /\ \E u \in Orders(U) :
                \A i \in 1..Len(u) :
                    /\ o.left_logABF[i] = ValueOrZero(l, u[i])
                    /\ o.right_logABF[i] = ValueOrZero(r, u[i])
\* a pair with a shared tag, a left-only tag and a right-only tag
C4_Witness ==
    /\ pc = "done"
    /\ \E o \in OutRows :
         LET l == TagsOf(idCols(o.left))
             r == TagsOf(idCols(o.right))
         IN l \ r # {} /\ r \ l # {} /\ l \cap r # {}

(***************************************************************************)
(* C10: the set of OverlapPairs depends on the records alone: whatever     *)
(* order collect_list met the rows in and whichever duplicate              *)
(* dropDuplicates kept, the pairs, by identity and by their cells          *)
(* tag -> (left value, right value), are the same; only the index order    *)
(* of the vectors, common to both, varies.                                 *)
(***************************************************************************)
Cells(o) == { <<o.left_logABF[i], o.right_logABF[i]>> : i \in 1..Len(o.left_logABF) }
CanonicalPairs ==
    { [left |-> lr[1], right |-> lr[2],
       cells |-> { <<ValueOrZero(lr[1], t), ValueOrZero(lr[2], t)>> :
                     t \in TagsOf(lr[1]) \cup TagsOf(lr[2]) }] : lr \in Eligible }
C10_OutputDeterminedByRecords ==
    pc = "done" =>
        /\ { [left |-> idCols(o.left), right |-> idCols(o.right), cells |-> Cells(o)] :
                o \in OutRows } = CanonicalPairs
        /\ \A o \in OutRows : Len(o.right_logABF) = Len(o.left_logABF)
\* a run in which collect_list met a produced set's rows against tag order
C10_Witness ==
    /\ pc = "done"
    /\ \E c \in credSet :
         /\ Len(c.all_tags) >= 2
         /\ c.all_tags[1][1] = "t2" /\ c.all_tags[2][1] = "t1"
         /\ \E o \in OutRows : idCols(o.left) = idCols(c)

(***************************************************************************)
(* Claims about colocalisation                                             *)
(***************************************************************************)
InRange(p) == RLess(Real0, p) /\ RLess(p, Real1)
PriorsInRange == \A i \in 1..3 : InRange(priors[i])
Results == BagToSet(coloc)
Malformed(row) ==
    \/ Len(row.left_logABF) = 0
    \/ Len(row.right_logABF) = 0
    \/ Len(row.left_logABF) # Len(row.right_logABF)

(***************************************************************************)
(* C5, as claimed: no result is emitted for a pair with sumlogsum equal    *)
(* to logsum12, so every emitted result had a strictly positive argument   *)
(* to the H3 logarithm and a defined lH3abf.                               *)
(***************************************************************************)
C5_EmittedHasDefinedH3 ==
    \A r \in Results :
        /\ \A f \in BagToSet(logsums) :
             f.pair = r.pair =>
                /\ NotEqual(f.sumlogsum, f.logsum12)
                /\ RLess(Real0, H3Arg(f))
        /\ \A h \in BagToSet(hypotheses) : h.pair = r.pair => ~IsNullLog(h.lH3abf)
\* the part of C5 that the filter alone decides
C5_EmittedPassedFilter ==
    \A r \in Results :
        \A f \in BagToSet(logsums) :
            f.pair = r.pair =>
                /\ NotEqual(f.sumlogsum, f.logsum12)
                /\ RLess(Real0, H3Arg(f))

(***************************************************************************)
(* C6, as claimed: with priors 1e-4, 1e-4, 1e-5 and the pair [5.0], [5.0]  *)
(* a result is emitted in which coloc_h4 exceeds coloc_h0..coloc_h3.       *)
(***************************************************************************)
Section8Run == overlappingSignals = SetToBag({Pair55}) /\ priors = Priors55
C7_OutOfRangePriorEmitsNothing ==
    ~PriorsInRange => (hypotheses = EmptyBag /\ coloc = EmptyBag)

(***************************************************************************)
(* C8: with priors in (0,1), every emitted result has coloc_h0..coloc_h4   *)
(* in [0,1] and summing to 1.                                              *)
(***************************************************************************)
C8_PosteriorsAreADistribution ==
    PriorsInRange =>
        \A r \in Results :
            LET post == <<r.coloc_h0, r.coloc_h1, r.coloc_h2, r.coloc_h3, r.coloc_h4>>
            IN /\ \A i \in 1..5 :
                    ~IsNull(post[i]) /\ RLeq(Real0, post[i]) /\ RLeq(post[i], Real1)
               /\ Aggregate(post, Real0) = Real1
\* a result was emitted under priors in (0,1), with a hypothesis above lH0abf
C8_Witness ==
    /\ cpc = "done"
    /\ PriorsInRange
    /\ Results # {}
    /\ \E h \in BagToSet(hypotheses) : LLess(h.lH0abf, ArrayMax(h.allABF))

(***************************************************************************)
(* C9, as claimed: a pair whose vectors are empty or of different lengths  *)
(* aborts the run: colocalisation, even with every prior in (0,1), never   *)
(* ends normally on one.                                                   *)
(***************************************************************************)
C9_MalformedPairAborts ==
    (PriorsInRange /\ \E row \in BagToSet(overlappingSignals) : Malformed(row))
        => cpc # "done"

====
